---- MODULE Spec2Model ----
(***************************************************************************)
(* Provider abstraction and webhook normalisation layer of EngageNinja:    *)
(* the provider factory (getProvider, getAllProviders), the four adapters  *)
(* (TwilioSmsProvider, TwilioWhatsAppProvider, SESEmailProvider,           *)
(* DemoProvider) and the tables they read.                                 *)
(*                                                                         *)
(* The specifications share the variables:                                 *)
(*   SpecFactory   the factory over every content of the tenants and       *)
(*                 credential tables;                                      *)
(*   Spec          one adapter instance, as the factory returns it, being  *)
(*                 used for send and parseWebhook;                         *)
(*   SpecTimeline  webhook deliveries arriving at one adapter;             *)
(*   SpecLedger    the table message_provider_mappings;                    *)
(*   SpecDemo      the demo adapter's sends in order, and its delays;      *)
(*   SpecCore      the factory with verifyProvider and the methods of the  *)
(*                 adapter it resolved;                                    *)
(*   SpecBrands    the route submit-10dlc on tenant_10dlc_brands.          *)
(***************************************************************************)
EXTENDS Integers, Sequences, FiniteSets, TLC

VARIABLES
  tenants,      \* table tenants: tenant id -> row (is_demo) or NoTenant
  credentials,  \* table tenant_channel_credentials_v2: (tenant id, channel) -> row or NoRow
  env,          \* process.env: ENCRYPTION_KEY, TWILIO_MESSAGING_SERVICE_SID
  ledger,       \* table message_provider_mappings: set of rows
  now,          \* the clock read by Date.now() / new Date()
  provider,     \* the adapter instance the caller holds (NoProvider before resolution)
  call,         \* the last operation invoked and its arguments
  result,       \* what that operation did: its outcome and its effects
  timeline,     \* the webhook deliveries so far, in arrival order
  sent,         \* the send calls so far and what they returned, in call order
  tenant_business_info,  \* table tenant_business_info: tenant id -> row or null
  tenant_10dlc_brands    \* table tenant_10dlc_brands: set of rows

vars == <<tenants, credentials, env, ledger, now, provider, call, result, timeline,
          sent, tenant_business_info, tenant_10dlc_brands>>

-----------------------------------------------------------------------------
(* Bounds *)

\* The clock runs over 0..MaxClock.
MaxClock == 1
\* The timeline holds at most MaxEvents webhook deliveries.
MaxEvents == 2
\* At most MaxSends send calls are recorded.
MaxSends == 2
\* Math.random() is drawn from RandomSteps equidistant values of [0, 1).
RandomSteps == 4

-----------------------------------------------------------------------------
(* JavaScript values *)

\* null / undefined where an object is expected
NullObj == [null |-> TRUE]
\* null / undefined / "" where a string is expected (all falsy)
Undef == "undefined"

Falsy(v) == v = Undef
Truthy(v) == v # Undef
\* a || b on strings
Or(a, b) == IF Truthy(a) THEN a ELSE b

\* The outcome of a call: it returns a value or throws (rejects) an error.
Return(v) == [kind |-> "return", value |-> v]
Throw(e) == [kind |-> "throw", error |-> e]

\* A JSON text: well formed, holding a value, or not. JSON.parse returns the
\* value of a well-formed text and throws a SyntaxError on any other.
JsonText(v) == [wellFormed |-> TRUE, value |-> v]
BadJson == [wellFormed |-> FALSE, value |-> NullObj]
SyntaxError == "SyntaxError"
TypeError == "TypeError"
JSON_parse(text) == IF text.wellFormed THEN Return(text.value) ELSE Throw(SyntaxError)

-----------------------------------------------------------------------------
(* The tables *)

TenantIds == {"t1"}
Channels == {"sms", "whatsapp", "email"}

NoTenant == NullObj
TenantRows == [is_demo : BOOLEAN]

\* Credential keys a decrypted blob may hold.
TwilioKeys == {"accountSid", "authToken"}
SESKeys == {"accessKeyId", "secretAccessKey", "region"}
FullCredentials == [keys |-> TwilioKeys \cup SESKeys]
PartialCredentials == [keys |-> {"accountSid", "accessKeyId"}]

\* Encryption keys: the default of decryptCredentials, and another.
ProcessKey == "default-dev-key-change-in-production"
OtherKey == "rotated-key"

\* An encrypted blob is a plaintext under a key; the column may be NULL.
Encrypted(key, plaintext) == [key |-> key, plaintext |-> plaintext]
NoBlob == NullObj
Blobs ==
  { NoBlob,
    Encrypted(ProcessKey, JsonText(FullCredentials)),
    Encrypted(ProcessKey, JsonText(PartialCredentials)),
    Encrypted(ProcessKey, BadJson),
    Encrypted(OtherKey, JsonText(FullCredentials)) }

\* A stored blob whose ciphertext was damaged afterwards. AES-CBC carries no
\* integrity check: damage that breaks the final padding makes the cipher
\* throw, damage that breaks the JSON syntax makes JSON.parse throw, and damage
\* that falls within a string value decrypts and parses to an object with the
\* same keys and a garbled value.
Damages == {"padding", "syntax", "string value"}
Damaged(blob, damage) ==
  [key |-> blob.key, plaintext |-> blob.plaintext, damage |-> damage]
IsDamaged(blob) == "damage" \in DOMAIN blob
DamagedBlobs ==
  { Damaged(Encrypted(ProcessKey, JsonText(FullCredentials)), d) : d \in Damages }
Garbled(object) == [keys |-> object.keys, garbled |-> TRUE]

\* provider_config_json: NULL, or the JSON text of a config object.
NoText == NullObj
Configs ==
  [ phone_number : {Undef, "+15550001111"},
    messaging_service_sid : {Undef, "MGconfig"},
    whatsapp_number : {Undef, "+15550003333"},
    webhook_url : {"https://engageninja.example/webhooks/twilio"} ]
EmptyConfig ==
  [phone_number |-> Undef, messaging_service_sid |-> Undef, whatsapp_number |-> Undef,
   webhook_url |-> Undef]
SmsConfig ==
  [phone_number |-> "+15550001111", messaging_service_sid |-> Undef,
   whatsapp_number |-> Undef,
   webhook_url |-> "https://engageninja.example/webhooks/twilio"]

EmptyConfigured ==
  [phone_number |-> Undef, messaging_service_sid |-> Undef, whatsapp_number |-> Undef,
   webhook_url |-> "https://engageninja.example/webhooks/twilio"]

ProviderNames == {"twilio", "aws_ses", "demo", "sendgrid"}

NoRow == NullObj
CredRow(p, blob, cfg) ==
  [provider |-> p, credentials_json_encrypted |-> blob, provider_config_json |-> cfg]
\* Rows of every carrier name and blob, rows without a config text and
\* with one that is not JSON (the column is unconstrained TEXT), and rows whose
\* blob was damaged in storage.
FactoryRows ==
  { CredRow(p, b, JsonText(SmsConfig)) : p \in ProviderNames, b \in Blobs }
    \cup { CredRow("twilio", Encrypted(ProcessKey, JsonText(FullCredentials)), cfg) :
             cfg \in {NoText, BadJson} }
    \cup { CredRow("twilio", b, JsonText(SmsConfig)) : b \in DamagedBlobs }

-----------------------------------------------------------------------------
(* MessagingProvider: the adapters' base class *)

\* An adapter instance: its class and the constructor's arguments.
Instance(class, tenantId, channel, creds, config) ==
  [class |-> class, tenantId |-> tenantId, channel |-> channel,
   credentials |-> creds, config |-> config]

hasRequiredCredentials(creds, keys) ==
  /\ creds # NullObj
  /\ keys \subseteq creds.keys

MissingCredentials == "Missing required credentials"

-----------------------------------------------------------------------------
(* The adapters' constructors *)

\* What a call did besides returning or throwing: the credential rows it read,
\* the adapter constructors it invoked and the carrier API calls it made.
Effect(out, reads, built, calls) ==
  [out |-> out, reads |-> reads, built |-> built, calls |-> calls]

\* new DemoProvider(tenantId, channel): credentials are dropped, config defaults to {}.
DemoProvider(tenantId, channel) ==
  Return(Instance("DemoProvider", tenantId, channel, [keys |-> {}], EmptyConfig))

TwilioSmsProvider(tenantId, channel, creds, config) ==
  IF ~hasRequiredCredentials(creds, TwilioKeys)
  THEN Throw(MissingCredentials)
  ELSE Return(Instance("TwilioSmsProvider", tenantId, channel, creds, config))

\* TwilioWhatsAppProvider extends TwilioSmsProvider and inherits its constructor.
TwilioWhatsAppProvider(tenantId, channel, creds, config) ==
  IF ~hasRequiredCredentials(creds, TwilioKeys)
  THEN Throw(MissingCredentials)
  ELSE Return(Instance("TwilioWhatsAppProvider", tenantId, channel, creds, config))

SESEmailProvider(tenantId, channel, creds, config) ==
  IF ~hasRequiredCredentials(creds, SESKeys)
  THEN Throw(MissingCredentials)
  ELSE Return(Instance("SESEmailProvider", tenantId, channel, creds, config))

\* static getSupportedChannels() of each adapter class
getSupportedChannels(class) ==
  CASE class = "TwilioSmsProvider" -> {"sms", "whatsapp"}
    [] class = "TwilioWhatsAppProvider" -> {"whatsapp"}
    [] class = "SESEmailProvider" -> {"email"}
    [] class = "DemoProvider" -> {"sms", "whatsapp", "email"}

-----------------------------------------------------------------------------
(* providerFactory.js *)

\* The errors getProvider throws, by their message.
TenantNotFound == "Tenant not found"
ChannelNotConfigured == "No provider configured for tenant"
InvalidCredentials == "Invalid credentials - decryption failed"
TwilioUnsupportedChannel == "Twilio does not support channel"
SESUnsupportedChannel == "AWS SES does not support channel"
UnknownProvider == "Unknown provider"
UnsupportedCarrierForChannel ==
  {TwilioUnsupportedChannel, SESUnsupportedChannel, UnknownProvider}

encryptionKey == Or(env.ENCRYPTION_KEY, ProcessKey)

\* decryptCredentials: null for no blob; the parsed object when the blob
\* decrypts under the process key to a JSON text; otherwise the cipher or
\* JSON.parse throws inside the try and the catch rethrows.
decryptCredentials(encryptedData) ==
  IF encryptedData = NoBlob THEN Return(NullObj)
  ELSE IF encryptedData.key # encryptionKey THEN Throw(InvalidCredentials)
  ELSE IF IsDamaged(encryptedData) /\ encryptedData.damage # "string value"
  THEN Throw(InvalidCredentials)
  ELSE LET parsed == JSON_parse(encryptedData.plaintext) IN
       IF parsed.kind = "throw" THEN Throw(InvalidCredentials)
       ELSE IF IsDamaged(encryptedData) THEN Return(Garbled(parsed.value))
       ELSE parsed

\* dispatch with the Twilio branch not looking at the channel
dispatch_twilioAnyChannel(tenantId, channel, creds, decrypted, config) ==
  CASE creds.provider = "twilio" ->
         IF channel = "whatsapp"
         THEN Effect(TwilioWhatsAppProvider(tenantId, channel, decrypted, config),
                     <<>>, <<"TwilioWhatsAppProvider">>, <<>>)
         ELSE Effect(TwilioSmsProvider(tenantId, channel, decrypted, config),
                     <<>>, <<"TwilioSmsProvider">>, <<>>)
    [] creds.provider = "aws_ses" ->
         IF channel = "email"
         THEN Effect(SESEmailProvider(tenantId, channel, decrypted, config),
                     <<>>, <<"SESEmailProvider">>, <<>>)
         ELSE Effect(Throw(SESUnsupportedChannel), <<>>, <<>>, <<>>)
    [] OTHER -> Effect(Throw(UnknownProvider), <<>>, <<>>, <<>>)

\* Step 5 of getProvider: the switch on creds.provider and the channel.
dispatch(tenantId, channel, creds, decrypted, config) ==
  CASE creds.provider = "twilio" ->
         IF channel = "sms"
         THEN Effect(TwilioSmsProvider(tenantId, channel, decrypted, config),
                     <<>>, <<"TwilioSmsProvider">>, <<>>)
         ELSE IF channel = "whatsapp"
         THEN Effect(TwilioWhatsAppProvider(tenantId, channel, decrypted, config),
                     <<>>, <<"TwilioWhatsAppProvider">>, <<>>)
         ELSE Effect(Throw(TwilioUnsupportedChannel), <<>>, <<>>, <<>>)
    [] creds.provider = "aws_ses" ->
         IF channel = "email"
         THEN Effect(SESEmailProvider(tenantId, channel, decrypted, config),
                     <<>>, <<"SESEmailProvider">>, <<>>)
         ELSE Effect(Throw(SESUnsupportedChannel), <<>>, <<>>, <<>>)
    [] OTHER -> Effect(Throw(UnknownProvider), <<>>, <<>>, <<>>)

\* resolveConfigured looking at the (carrier, channel) pair before the blob
resolveConfigured_dispatchFirst(tenantId, channel) ==
  LET creds == credentials[<<tenantId, channel>>]
      reads == << <<tenantId, channel>> >>
  IN IF creds = NoRow
     THEN Effect(Throw(ChannelNotConfigured), reads, <<>>, <<>>)
     ELSE LET probe == dispatch(tenantId, channel, creds, NullObj, EmptyConfig)
              decrypted == decryptCredentials(creds.credentials_json_encrypted)
              config == IF creds.provider_config_json # NoText
                        THEN JSON_parse(creds.provider_config_json)
                        ELSE Return(EmptyConfig)
          IN IF probe.out.kind = "throw" THEN Effect(probe.out, reads, <<>>, <<>>)
             ELSE IF decrypted.kind = "throw" THEN Effect(decrypted, reads, <<>>, <<>>)
             ELSE IF config.kind = "throw" THEN Effect(config, reads, <<>>, <<>>)
             ELSE LET d == dispatch(tenantId, channel, creds, decrypted.value,
                                    config.value)
                  IN Effect(d.out, reads, d.built, <<>>)

\* resolveConfigured with a channel that has no row served by the demo adapter
resolveConfigured_demoFallback(tenantId, channel) ==
  LET creds == credentials[<<tenantId, channel>>]
      reads == << <<tenantId, channel>> >>
  IN IF creds = NoRow
     THEN Effect(DemoProvider(tenantId, channel), reads, <<"DemoProvider">>, <<>>)
     ELSE LET decrypted == decryptCredentials(creds.credentials_json_encrypted)
              config == IF creds.provider_config_json # NoText
                        THEN JSON_parse(creds.provider_config_json)
                        ELSE Return(EmptyConfig)
          IN IF decrypted.kind = "throw" THEN Effect(decrypted, reads, <<>>, <<>>)
             ELSE IF config.kind = "throw" THEN Effect(config, reads, <<>>, <<>>)
             ELSE LET d == dispatch(tenantId, channel, creds, decrypted.value,
                                    config.value)
                  IN Effect(d.out, reads, d.built, <<>>)

\* Steps 3 to 5 of getProvider, for a tenant that exists and is not demo.
resolveConfigured(tenantId, channel) ==
  LET creds == credentials[<<tenantId, channel>>]
      reads == << <<tenantId, channel>> >>
  IN IF creds = NoRow
     THEN Effect(Throw(ChannelNotConfigured), reads, <<>>, <<>>)
     ELSE LET decrypted == decryptCredentials(creds.credentials_json_encrypted)
              config == IF creds.provider_config_json # NoText
                        THEN JSON_parse(creds.provider_config_json)
                        ELSE Return(EmptyConfig)
          IN IF decrypted.kind = "throw" THEN Effect(decrypted, reads, <<>>, <<>>)
             ELSE IF config.kind = "throw" THEN Effect(config, reads, <<>>, <<>>)
             ELSE LET d == dispatch(tenantId, channel, creds, decrypted.value,
                                    config.value)
                  IN Effect(d.out, reads, d.built, <<>>)

\* getProvider looking up the credential row before the demo flag
getProvider_credentialsFirst(tenantId, channel) ==
  LET tenant == tenants[tenantId] IN
  IF tenant = NoTenant
  THEN Effect(Throw(TenantNotFound), <<>>, <<>>, <<>>)
  ELSE LET r == resolveConfigured(tenantId, channel) IN
       IF r.out.kind = "throw" /\ r.out.error # ChannelNotConfigured THEN r
       ELSE IF tenant.is_demo
       THEN Effect(DemoProvider(tenantId, channel), r.reads, <<"DemoProvider">>, <<>>)
       ELSE r

\* getProvider querying the tenant's demo flag without checking the row exists
getProvider_noTenantCheck(tenantId, channel) ==
  LET tenant == tenants[tenantId] IN
  IF tenant # NoTenant /\ tenant.is_demo
  THEN Effect(DemoProvider(tenantId, channel), <<>>, <<"DemoProvider">>, <<>>)
  ELSE resolveConfigured(tenantId, channel)

getProvider(tenantId, channel) ==
  LET tenant == tenants[tenantId] IN
  IF tenant = NoTenant
  THEN Effect(Throw(TenantNotFound), <<>>, <<>>, <<>>)
  ELSE IF tenant.is_demo
  THEN Effect(DemoProvider(tenantId, channel), <<>>, <<"DemoProvider">>, <<>>)
  ELSE resolveConfigured(tenantId, channel)

\* getAllProviders: the loop over the three channels; a channel whose
\* resolution throws is skipped by the empty catch.
ChannelList == <<"sms", "whatsapp", "email">>

tryChannel(acc, tenantId, channel) ==
  LET r == getProvider(tenantId, channel) IN
  [ providers |-> IF r.out.kind = "return"
                  THEN (channel :> r.out.value) @@ acc.providers
                  ELSE acc.providers,
    reads |-> acc.reads \o r.reads,
    built |-> acc.built \o r.built ]

RECURSIVE getAllProvidersLoop(_, _, _)
getAllProvidersLoop(acc, tenantId, i) ==
  IF i > Len(ChannelList) THEN acc
  ELSE getAllProvidersLoop(tryChannel(acc, tenantId, ChannelList[i]), tenantId, i + 1)

\* getAllProviders without the try/catch around each resolution
getAllProviders_noCatch(tenantId) ==
  LET acc == getAllProvidersLoop([providers |-> <<>>, reads |-> <<>>, built |-> <<>>],
                                 tenantId, 1)
      failed == { i \in 1..Len(ChannelList) :
                    getProvider(tenantId, ChannelList[i]).out.kind = "throw" }
      first == CHOOSE i \in failed : \A j \in failed : i <= j
  IN IF failed = {}
     THEN Effect(Return(acc.providers), acc.reads, acc.built, <<>>)
     ELSE Effect(getProvider(tenantId, ChannelList[first]).out, acc.reads, acc.built, <<>>)

getAllProviders(tenantId) ==
  LET acc == getAllProvidersLoop([providers |-> <<>>, reads |-> <<>>, built |-> <<>>],
                                 tenantId, 1)
  IN Effect(Return(acc.providers), acc.reads, acc.built, <<>>)

-----------------------------------------------------------------------------
(* Messages, carrier answers and results of send *)

MessageIds == {"m1", "m2"}

\* A message is an object with any of the fields the adapters read; a field a
\* message does not carry is undefined. NullObj is a null or undefined message.
Message(id, phone, from, content, to, subject, html, fromEmail) ==
  [ id |-> id, phone_number |-> phone, from_number |-> from, content |-> content,
    to_email |-> to, subject |-> subject, html_body |-> html, text_body |-> Undef,
    from_email |-> fromEmail ]
SmsMessages ==
  { Message(id, phone, from, content, Undef, Undef, Undef, Undef) :
      id \in MessageIds, phone \in {Undef, "+15550002222"},
      from \in {Undef, "+15550009999"}, content \in {Undef, "hi"} }
EmailMessages ==
  { Message("m1", Undef, Undef, Undef, to, subject, html, fromEmail) :
      to \in {Undef, "to@example.com"}, subject \in {Undef, "Hello"},
      html \in {Undef, "<p>hi</p>"}, fromEmail \in {Undef, "from@example.com"} }
Messages == SmsMessages \cup EmailMessages \cup {NullObj}

\* What the carrier's API answers to one call: it accepts the message under an
\* id, or the call rejects.
CarrierTransportError == "carrier request failed"
CarrierAnswers == {[ok |-> TRUE, id |-> "CM123"], [ok |-> FALSE, id |-> Undef]}

SendSuccess(id, providerName, demo) ==
  [ success |-> TRUE, provider_message_id |-> id, status |-> "sent",
    provider |-> providerName, error |-> Undef, demo |-> demo ]
SendFailure(error, providerName, demo) ==
  [ success |-> FALSE, provider_message_id |-> Undef, status |-> Undef,
    provider |-> providerName, error |-> error, demo |-> demo ]

\* The try block's outcome and the carrier calls it made.
Tried(out, calls) == [out |-> out, calls |-> calls]

\* await client.messages.create(payload) / ses.sendEmail(params).promise()
carrierCall(payload, carrier, providerName) ==
  Tried(IF carrier.ok THEN Return(SendSuccess(carrier.id, providerName, FALSE))
        ELSE Throw(CarrierTransportError),
        <<payload>>)

-----------------------------------------------------------------------------
(* TwilioSmsProvider.send *)

NoPhoneNumber == "No phone number configured for tenant"
RecipientMissing == "Recipient phone number missing"
NoSender == "No messaging service sid or phone number configured for tenant"

TwilioPayload(to, body, from, sid) ==
  [api |-> "twilio.messages.create", to |-> to, body |-> body, from |-> from,
   messagingServiceSid |-> sid]

\* a from_number on the message taking precedence over the messaging service
TwilioSmsProvider_sendTry_fromOverride(self, message, carrier) ==
  IF message = NullObj THEN Tried(Throw(TypeError), <<>>)
  ELSE
    LET fromNumber == Or(message.from_number, self.config.phone_number)
        messagingServiceSid ==
          Or(self.config.messaging_service_sid, env.TWILIO_MESSAGING_SERVICE_SID)
    IN IF Falsy(fromNumber) THEN Tried(Throw(NoPhoneNumber), <<>>)
       ELSE IF Falsy(message.phone_number) THEN Tried(Throw(RecipientMissing), <<>>)
       ELSE IF Truthy(messagingServiceSid) /\ Falsy(message.from_number)
       THEN carrierCall(TwilioPayload(message.phone_number, message.content, Undef,
                                      messagingServiceSid), carrier, "twilio")
       ELSE carrierCall(TwilioPayload(message.phone_number, message.content,
                                      fromNumber, Undef), carrier, "twilio")

TwilioSmsProvider_sendTry(self, message, carrier) ==
  IF message = NullObj THEN Tried(Throw(TypeError), <<>>)   \* destructuring null
  ELSE
    LET fromNumber == Or(message.from_number, self.config.phone_number)
        messagingServiceSid ==
          Or(self.config.messaging_service_sid, env.TWILIO_MESSAGING_SERVICE_SID)
    IN IF Falsy(fromNumber) THEN Tried(Throw(NoPhoneNumber), <<>>)
       ELSE IF Falsy(message.phone_number) THEN Tried(Throw(RecipientMissing), <<>>)
       ELSE IF Truthy(messagingServiceSid)
       THEN carrierCall(TwilioPayload(message.phone_number, message.content, Undef,
                                      messagingServiceSid), carrier, "twilio")
       ELSE IF Truthy(fromNumber)
       THEN carrierCall(TwilioPayload(message.phone_number, message.content,
                                      fromNumber, Undef), carrier, "twilio")
       ELSE Tried(Throw(NoSender), <<>>)

\* The catch block of the Twilio and SES adapters: it reads a field of the
\* message for the log context before building the failure value, which throws
\* again when the message is null or undefined.
sendCatch(message, error, providerName) ==
  IF message = NullObj THEN Throw(TypeError)
  ELSE Return(SendFailure(error, providerName, FALSE))

TwilioSmsProvider_send(self, message, carrier) ==
  LET t == TwilioSmsProvider_sendTry(self, message, carrier) IN
  IF t.out.kind = "return" THEN Effect(t.out, <<>>, <<>>, t.calls)
  ELSE Effect(sendCatch(message, t.out.error, "twilio"), <<>>, <<>>, t.calls)

-----------------------------------------------------------------------------
(* TwilioWhatsAppProvider.send *)

NoWhatsAppNumber == "No WhatsApp Business Account number configured for tenant"

\* the sender falling back to the plain SMS number of the config
TwilioWhatsAppProvider_sendTry_smsFallback(self, message, carrier) ==
  IF message = NullObj THEN Tried(Throw(TypeError), <<>>)
  ELSE
    LET fromNumber == Or(Or(message.from_number, self.config.whatsapp_number),
                         self.config.phone_number) IN
    IF Falsy(fromNumber) THEN Tried(Throw(NoWhatsAppNumber), <<>>)
    ELSE IF Falsy(message.phone_number) THEN Tried(Throw(RecipientMissing), <<>>)
    ELSE carrierCall(TwilioPayload("whatsapp:" \o message.phone_number,
                                   message.content, "whatsapp:" \o fromNumber, Undef),
                     carrier, "twilio")

TwilioWhatsAppProvider_sendTry(self, message, carrier) ==
  IF message = NullObj THEN Tried(Throw(TypeError), <<>>)
  ELSE
    LET fromNumber == Or(message.from_number, self.config.whatsapp_number) IN
    IF Falsy(fromNumber) THEN Tried(Throw(NoWhatsAppNumber), <<>>)
    ELSE IF Falsy(message.phone_number) THEN Tried(Throw(RecipientMissing), <<>>)
    ELSE carrierCall(TwilioPayload("whatsapp:" \o message.phone_number,
                                   message.content, "whatsapp:" \o fromNumber, Undef),
                     carrier, "twilio")

TwilioWhatsAppProvider_send(self, message, carrier) ==
  LET t == TwilioWhatsAppProvider_sendTry(self, message, carrier) IN
  IF t.out.kind = "return" THEN Effect(t.out, <<>>, <<>>, t.calls)
  ELSE Effect(sendCatch(message, t.out.error, "twilio"), <<>>, <<>>, t.calls)

-----------------------------------------------------------------------------
(* SESEmailProvider.send *)

MissingEmailFields ==
  "Missing required email fields: to_email, subject, html_body, from_email"

SESPayload(self, message) ==
  [ api |-> "ses.sendEmail", Source |-> message.from_email,
    ToAddresses |-> <<message.to_email>>, Subject |-> message.subject,
    Html |-> message.html_body, Text |-> message.text_body,
    Tags |-> [tenant_id |-> self.tenantId, message_id |-> message.id] ]

SESEmailProvider_sendTry(self, message, carrier) ==
  IF message = NullObj THEN Tried(Throw(TypeError), <<>>)
  ELSE IF \/ Falsy(message.to_email) \/ Falsy(message.subject)
          \/ Falsy(message.html_body) \/ Falsy(message.from_email)
  THEN Tried(Throw(MissingEmailFields), <<>>)
  ELSE carrierCall(SESPayload(self, message), carrier, "aws_ses")

SESEmailProvider_send(self, message, carrier) ==
  LET t == SESEmailProvider_sendTry(self, message, carrier) IN
  IF t.out.kind = "return" THEN Effect(t.out, <<>>, <<>>, t.calls)
  ELSE Effect(sendCatch(message, t.out.error, "aws_ses"), <<>>, <<>>, t.calls)

-----------------------------------------------------------------------------
(* DemoProvider.send *)

\* `${messageId}-${timestamp}`: the id without its marker
generateDemoMessageId_noMarker(messageId) == messageId \o "-" \o ToString(now)

\* `demo-${messageId}-${timestamp}` with timestamp = Date.now()
generateDemoMessageId(messageId) == "demo-" \o messageId \o "-" \o ToString(now)

DemoProvider_sendTry(self, message) ==
  IF message = NullObj THEN Throw(TypeError)                \* message.id of null
  ELSE Return(SendSuccess(generateDemoMessageId(message.id), "demo", TRUE))

\* The demo adapter's catch block builds the failure value without reading
\* the message.
DemoProvider_send(self, message) ==
  LET t == DemoProvider_sendTry(self, message) IN
  IF t.kind = "return" THEN Effect(t, <<>>, <<>>, <<>>)
  ELSE Effect(Return(SendFailure(t.error, "demo", TRUE)), <<>>, <<>>, <<>>)

-----------------------------------------------------------------------------
(* DemoProvider.getDemoDelays *)

\* Math.random() draws k / RandomSteps for some k in 0..RandomSteps-1, a value
\* in [0, 1).
RandomDraws == 0..(RandomSteps - 1)

\* read_delay computed as Math.random() * 5000
getDemoDelays_readFromZero(r1, r2) ==
  [ sent_delay |-> 0,
    delivered_delay |-> 3000 + (r1 * 2000) \div RandomSteps,
    read_delay |-> (r2 * 5000) \div RandomSteps ]

\* { sent_delay: 0, delivered_delay: 3000 + Math.random() * 2000,
\*   read_delay: 5000 + Math.random() * 5000 }, in milliseconds, r1 and r2 being
\* the two draws.
getDemoDelays(r1, r2) ==
  [ sent_delay |-> 0,
    delivered_delay |-> 3000 + (r1 * 2000) \div RandomSteps,
    read_delay |-> 5000 + (r2 * 5000) \div RandomSteps ]

\* provider.send(message): the method of the instance's class.
send(self, message, carrier) ==
  CASE self.class = "TwilioSmsProvider" -> TwilioSmsProvider_send(self, message, carrier)
    [] self.class = "TwilioWhatsAppProvider" ->
         TwilioWhatsAppProvider_send(self, message, carrier)
    [] self.class = "SESEmailProvider" -> SESEmailProvider_send(self, message, carrier)
    [] self.class = "DemoProvider" -> DemoProvider_send(self, message)

-----------------------------------------------------------------------------
(* Webhook bodies and results of parseWebhook *)

NoTime == -1
EventTimes == {1, 2}

\* A webhook body is an object with any of the fields the adapters read.
\* NullObj is a null or undefined body.
Body(sid, mstatus, type, msg, etype, mail, delivery, bounce, complaint, pmid, status, ts) ==
  [ MessageSid |-> sid, MessageStatus |-> mstatus,
    Type |-> type, Message |-> msg,
    eventType |-> etype, mail |-> mail, delivery |-> delivery, bounce |-> bounce,
    complaint |-> complaint,
    provider_message_id |-> pmid, status |-> status, timestamp |-> ts ]

\* Twilio status callbacks (form fields)
TwilioStatuses == {"queued", "sent", "delivered", "undelivered", "failed", "read", Undef}
TwilioBody(sid, st) ==
  Body(sid, st, Undef, NullObj, Undef, NullObj, NullObj, NullObj, NullObj,
       Undef, Undef, NoTime)
TwilioBodies ==
  { TwilioBody("CM123", st) : st \in TwilioStatuses }
    \cup { TwilioBody(Undef, "delivered") }

\* SES events
SESEventTypes ==
  {"Send", "Delivery", "Bounce", "Complaint", "Open", "Click", "Reject", Undef}
Mails == {NullObj, [messageId |-> Undef], [messageId |-> "E1"]}
At(t) == [timestamp |-> t]
\* the delivery, bounce and complaint sub-objects of an event
TimeShapes ==
  { <<NullObj, NullObj, NullObj>>, <<At(1), NullObj, NullObj>>,
    <<NullObj, At(2), NullObj>>, <<NullObj, NullObj, At(1)>>,
    <<At(NoTime), At(2), At(1)>> }
SESEvent(et, mail, ts) ==
  Body(Undef, Undef, Undef, NullObj, et, mail, ts[1], ts[2], ts[3],
       Undef, Undef, NoTime)
\* every event type with every mail object, and every shape of the timestamps
SESEvents ==
  { SESEvent(et, mail, <<NullObj, NullObj, NullObj>>) :
      et \in SESEventTypes, mail \in Mails }
    \cup { SESEvent("Delivery", [messageId |-> "E1"], ts) : ts \in TimeShapes }
\* the SNS envelope {Type: "Notification", Message: <json string>}
Envelope(msg) ==
  Body(Undef, Undef, "Notification", msg, Undef, NullObj, NullObj, NullObj, NullObj,
       Undef, Undef, NoTime)
SNSBodies ==
  { Envelope(JsonText(e)) : e \in SESEvents }
    \cup { Envelope(BadJson), Envelope(JsonText(NullObj)), Envelope(NullObj) }

\* Simulated callbacks of the demo adapter
DemoBody(pmid, st, ts) ==
  Body(Undef, Undef, Undef, NullObj, Undef, NullObj, NullObj, NullObj, NullObj,
       pmid, st, ts)
DemoBodies ==
  { DemoBody("demo-m1-0", st, 1) :
      st \in {"sent", "delivered", "read", "failed", "bogus", Undef} }
    \cup { DemoBody(Undef, "delivered", 1), DemoBody("demo-m1-0", "delivered", NoTime) }

Bodies == TwilioBodies \cup SESEvents \cup SNSBodies \cup DemoBodies \cup {NullObj}

ParseOk(id, status, ts, eventType, raw, demo) ==
  [ provider_message_id |-> id, status |-> status, timestamp |-> ts,
    event_type |-> eventType, raw |-> raw, demo |-> demo, error |-> Undef ]
ParseError(error, demo) ==
  [ provider_message_id |-> Undef, status |-> "unknown", timestamp |-> NoTime,
    event_type |-> Undef, raw |-> NullObj, demo |-> demo, error |-> error ]

\* MessagingProvider.normalizeStatus
NormalizedStatuses == {"sent", "delivered", "read", "failed", "unknown"}
normalizeStatus(status) ==
  CASE status \in {"sent", "delivered", "read", "failed"} -> status
    [] status = "undelivered" -> "failed"
    [] OTHER -> "unknown"

-----------------------------------------------------------------------------
(* TwilioSmsProvider.parseWebhook, TwilioWhatsAppProvider.parseWebhook *)

\* X-Twilio-Signature: the HMAC of the URL and the posted parameters under a
\* token; the header may be missing.
AuthToken == "tenant-auth-token"
AttackerToken == "attacker-token"
Hmac(token, url, params) == [token |-> token, url |-> url, params |-> params]
NoSignature == NullObj

\* twilio.validateRequest(authToken, signature, url, params): it enumerates the
\* keys of params, which throws on null.
validateRequest(authToken, signature, url, params) ==
  IF params = NullObj THEN Throw(TypeError)
  ELSE Return(signature = Hmac(authToken, url, params))

verifyWebhookSignature(self, body, signature) ==
  LET webhookUrl == Or(self.config.webhook_url, "")
      v == validateRequest(AuthToken, signature, webhookUrl, body)
  IN IF v.kind = "throw" THEN FALSE ELSE v.value

InvalidSignature == "Invalid webhook signature"
MessageSidMissing == "MessageSid missing from webhook"

\* TwilioSmsProvider.parseWebhook's try block with a replay guard: a callback
\* already delivered is refused
TwilioSmsProvider_parseTry_replayGuard(self, body, signature) ==
  IF ~verifyWebhookSignature(self, body, signature) THEN Throw(InvalidSignature)
  ELSE IF \E k \in 1..Len(timeline) :
            timeline[k].body = body /\ timeline[k].signature = signature
  THEN Throw("Duplicate webhook")
  ELSE IF body = NullObj THEN Throw(TypeError)
  ELSE IF Falsy(body.MessageSid) THEN Throw(MessageSidMissing)
  ELSE Return(ParseOk(body.MessageSid, normalizeStatus(body.MessageStatus), now,
                      Undef, body, FALSE))

\* TwilioSmsProvider.parseWebhook's try block handing on the carrier's status
\* as it came
TwilioSmsProvider_parseTry_rawStatus(self, body, signature) ==
  IF ~verifyWebhookSignature(self, body, signature) THEN Throw(InvalidSignature)
  ELSE IF body = NullObj THEN Throw(TypeError)
  ELSE IF Falsy(body.MessageSid) THEN Throw(MessageSidMissing)
  ELSE Return(ParseOk(body.MessageSid, body.MessageStatus, now, Undef, body, FALSE))

\* TwilioSmsProvider.parseWebhook's try block without the signature check
TwilioSmsProvider_parseTry_noSignatureCheck(self, body, signature) ==
  IF body = NullObj THEN Throw(TypeError)
  ELSE IF Falsy(body.MessageSid) THEN Throw(MessageSidMissing)
  ELSE Return(ParseOk(body.MessageSid, normalizeStatus(body.MessageStatus), now,
                      Undef, body, FALSE))

TwilioSmsProvider_parseTry(self, body, signature) ==
  IF ~verifyWebhookSignature(self, body, signature) THEN Throw(InvalidSignature)
  ELSE IF body = NullObj THEN Throw(TypeError)
  ELSE IF Falsy(body.MessageSid) THEN Throw(MessageSidMissing)
  ELSE Return(ParseOk(body.MessageSid, normalizeStatus(body.MessageStatus), now,
                      Undef, body, FALSE))

TwilioSmsProvider_parseWebhook(self, body, signature) ==
  LET t == TwilioSmsProvider_parseTry(self, body, signature) IN
  IF t.kind = "return" THEN t ELSE Return(ParseError(t.error, FALSE))

\* super.parseWebhook(body, signature), returned as it is on either branch
TwilioWhatsAppProvider_parseWebhook(self, body, signature) ==
  LET parent == TwilioSmsProvider_parseWebhook(self, body, signature) IN
  IF parent.kind = "return" /\ Truthy(parent.value.error) THEN parent ELSE parent

-----------------------------------------------------------------------------
(* SESEmailProvider.parseWebhook *)

InvalidSESEvent == "Invalid SES event structure"

\* the switch without the cases for Open and Click
sesStatus_noOpenClick(eventType) ==
  CASE eventType = "Send" -> "sent"
    [] eventType = "Delivery" -> "delivered"
    [] eventType = "Bounce" -> "failed"
    [] eventType = "Complaint" -> "failed"
    [] OTHER -> "unknown"

\* the switch on event.eventType
sesStatus(eventType) ==
  CASE eventType = "Send" -> "sent"
    [] eventType = "Delivery" -> "delivered"
    [] eventType = "Bounce" -> "failed"
    [] eventType = "Complaint" -> "failed"
    [] eventType = "Open" -> "read"
    [] eventType = "Click" -> "read"
    [] OTHER -> "unknown"

\* o?.timestamp
optTimestamp(o) == IF o = NullObj THEN NoTime ELSE o.timestamp

\* delivery?.timestamp || bounce?.timestamp || complaint?.timestamp || now
sesTimestamp(event) ==
  IF optTimestamp(event.delivery) # NoTime THEN optTimestamp(event.delivery)
  ELSE IF optTimestamp(event.bounce) # NoTime THEN optTimestamp(event.bounce)
  ELSE IF optTimestamp(event.complaint) # NoTime THEN optTimestamp(event.complaint)
  ELSE now

\* no unwrapping: the body is taken for the event
sesUnwrap_bodyIsEvent(body) == Return(body)

\* if (body.Type === 'Notification' && body.Message) event = JSON.parse(body.Message)
sesUnwrap(body) ==
  IF body.Type = "Notification" /\ body.Message # NullObj
  THEN JSON_parse(body.Message)
  ELSE Return(body)

\* the structure check on event.mail alone
SESEmailProvider_parseTry_mailOnly(self, body, signature) ==
  IF body = NullObj THEN Throw(TypeError)
  ELSE LET event == sesUnwrap(body) IN
       IF event.kind = "throw" THEN event
       ELSE IF event.value = NullObj THEN Throw(TypeError)
       ELSE IF event.value.mail = NullObj THEN Throw(InvalidSESEvent)
       ELSE Return(ParseOk(event.value.mail.messageId,
                           normalizeStatus(sesStatus(event.value.eventType)),
                           sesTimestamp(event.value), event.value.eventType,
                           event.value, FALSE))

SESEmailProvider_parseTry(self, body, signature) ==
  IF body = NullObj THEN Throw(TypeError)
  ELSE LET event == sesUnwrap(body) IN
       IF event.kind = "throw" THEN event
       ELSE IF event.value = NullObj THEN Throw(TypeError)
       ELSE IF event.value.mail = NullObj \/ Falsy(event.value.mail.messageId)
       THEN Throw(InvalidSESEvent)
       ELSE Return(ParseOk(event.value.mail.messageId,
                           normalizeStatus(sesStatus(event.value.eventType)),
                           sesTimestamp(event.value), event.value.eventType,
                           event.value, FALSE))

\* SESEmailProvider.parseWebhook without its try/catch
SESEmailProvider_parseWebhook_noCatch(self, body, signature) ==
  SESEmailProvider_parseTry(self, body, signature)

SESEmailProvider_parseWebhook(self, body, signature) ==
  LET t == SESEmailProvider_parseTry(self, body, signature) IN
  IF t.kind = "return" THEN t ELSE Return(ParseError(t.error, FALSE))

-----------------------------------------------------------------------------
(* DemoProvider.parseWebhook *)

DemoIdMissing == "provider_message_id missing from demo webhook"

\* DemoProvider.parseWebhook's try block refusing a callback without a
\* signature header
DemoProvider_parseTry_signatureRequired(self, body, signature) ==
  IF signature = NoSignature THEN Throw(InvalidSignature)
  ELSE IF body = NullObj THEN Throw(TypeError)
  ELSE IF Falsy(body.provider_message_id) THEN Throw(DemoIdMissing)
  ELSE Return(ParseOk(body.provider_message_id, normalizeStatus(body.status),
                      IF body.timestamp # NoTime THEN body.timestamp ELSE now,
                      Undef, NullObj, TRUE))

DemoProvider_parseTry(self, body, signature) ==
  IF body = NullObj THEN Throw(TypeError)
  ELSE IF Falsy(body.provider_message_id) THEN Throw(DemoIdMissing)
  ELSE Return(ParseOk(body.provider_message_id, normalizeStatus(body.status),
                      IF body.timestamp # NoTime THEN body.timestamp ELSE now,
                      Undef, NullObj, TRUE))

DemoProvider_parseWebhook(self, body, signature) ==
  LET t == DemoProvider_parseTry(self, body, signature) IN
  IF t.kind = "return" THEN t ELSE Return(ParseError(t.error, TRUE))

\* provider.parseWebhook(body, signature): the method of the instance's class.
parseWebhook(self, body, signature) ==
  CASE self.class = "TwilioSmsProvider" ->
         TwilioSmsProvider_parseWebhook(self, body, signature)
    [] self.class = "TwilioWhatsAppProvider" ->
         TwilioWhatsAppProvider_parseWebhook(self, body, signature)
    [] self.class = "SESEmailProvider" ->
         SESEmailProvider_parseWebhook(self, body, signature)
    [] self.class = "DemoProvider" -> DemoProvider_parseWebhook(self, body, signature)

-----------------------------------------------------------------------------
(* verify and getStatus of the adapters, verifyProvider *)

\* What the carrier's account API answers: the account (for SES with or
\* without verified sender addresses), or the call rejects.
AccountAnswers ==
  { [ok |-> TRUE, verified |-> TRUE], [ok |-> TRUE, verified |-> FALSE],
    [ok |-> FALSE, verified |-> FALSE] }

\* provider.verify(): TwilioSmsProvider.verify (inherited by
\* TwilioWhatsAppProvider) fetches the account, SESEmailProvider.verify
\* succeeds when the account lists a verified address, DemoProvider.verify
\* calls nothing; a rejected carrier call is caught into {success: false}.
verify(self, answer) ==
  CASE self.class \in {"TwilioSmsProvider", "TwilioWhatsAppProvider"} ->
         Effect(Return([success |-> answer.ok,
                        error |-> IF answer.ok THEN Undef ELSE CarrierTransportError]),
                <<>>, <<>>, <<[api |-> "twilio.accounts.fetch"]>>)
    [] self.class = "SESEmailProvider" ->
         Effect(Return([success |-> answer.ok /\ answer.verified,
                        error |-> IF answer.ok THEN Undef ELSE CarrierTransportError]),
                <<>>, <<>>, <<[api |-> "ses.listVerifiedEmailAddresses"]>>)
    [] self.class = "DemoProvider" ->
         Effect(Return([success |-> TRUE, error |-> Undef]), <<>>, <<>>, <<>>)

\* provider.getStatus(): the account fetch (Twilio), the send quota (SES),
\* nothing (demo); a rejected carrier call is caught into {status: 'error'}.
getStatus(self, answer) ==
  CASE self.class \in {"TwilioSmsProvider", "TwilioWhatsAppProvider"} ->
         Effect(Return([status |-> IF answer.ok THEN "active" ELSE "error",
                        error |-> IF answer.ok THEN Undef ELSE CarrierTransportError]),
                <<>>, <<>>, <<[api |-> "twilio.accounts.fetch"]>>)
    [] self.class = "SESEmailProvider" ->
         Effect(Return([status |-> IF answer.ok THEN "active" ELSE "error",
                        error |-> IF answer.ok THEN Undef ELSE CarrierTransportError]),
                <<>>, <<>>, <<[api |-> "ses.getSendQuota"]>>)
    [] self.class = "DemoProvider" ->
         Effect(Return([status |-> "active", error |-> Undef]), <<>>, <<>>, <<>>)

\* verifyProvider with the resolution error turned into a failure value
verifyProvider_failureValue(tenantId, channel, answer) ==
  LET r == getProvider(tenantId, channel) IN
  IF r.out.kind = "throw"
  THEN Effect(Return([success |-> FALSE, error |-> r.out.error]),
              r.reads, r.built, <<>>)
  ELSE LET v == verify(r.out.value, answer) IN
       Effect(v.out, r.reads, r.built, <<[api |-> "provider.verify"]>> \o v.calls)

\* verifyProvider: const provider = await getProvider(tenantId, channel);
\* return await provider.verify(). Its calls are the call of verify and the
\* carrier calls verify makes.
verifyProvider(tenantId, channel, answer) ==
  LET r == getProvider(tenantId, channel) IN
  IF r.out.kind = "throw" THEN r
  ELSE LET v == verify(r.out.value, answer) IN
       Effect(v.out, r.reads, r.built, <<[api |-> "provider.verify"]>> \o v.calls)

-----------------------------------------------------------------------------
(* State *)

NoProvider == NullObj
NoCall == [op |-> "none"]
NoResult == Effect(Return(NullObj), <<>>, <<>>, <<>>)

\* The factory, over every content of the two tables it reads.
InitFactory ==
  /\ tenants \in [TenantIds -> {NoTenant} \cup TenantRows]
  /\ credentials \in [TenantIds \X Channels -> {NoRow} \cup FactoryRows]
  /\ env \in [ENCRYPTION_KEY : {Undef, OtherKey}, TWILIO_MESSAGING_SERVICE_SID : {Undef}]
  /\ ledger = {}
  /\ now = 0
  /\ provider = NoProvider
  /\ call = NoCall
  /\ result = NoResult
  /\ timeline = <<>>
  /\ sent = <<>>
  /\ tenant_business_info = [t \in TenantIds |-> NullObj]
  /\ tenant_10dlc_brands = {}

GetProvider ==
  \E tenantId \in TenantIds, channel \in Channels :
    LET r == getProvider(tenantId, channel) IN
    /\ call' = [op |-> "getProvider", tenantId |-> tenantId, channel |-> channel]
    /\ result' = r
    /\ provider' = IF r.out.kind = "return" THEN r.out.value ELSE provider
    /\ UNCHANGED <<tenants, credentials, env, ledger, now, timeline,
                 sent, tenant_business_info, tenant_10dlc_brands>>

GetAllProviders ==
  \E tenantId \in TenantIds :
    /\ call' = [op |-> "getAllProviders", tenantId |-> tenantId]
    /\ result' = getAllProviders(tenantId)
    /\ UNCHANGED <<tenants, credentials, env, ledger, now, provider, timeline,
                 sent, tenant_business_info, tenant_10dlc_brands>>

NextFactory == GetProvider \/ GetAllProviders

SpecFactory == InitFactory /\ [][NextFactory]_vars

\* One adapter in use. The tables hold one tenant. A demo tenant has no
\* credential row; any other has one: a carrier that serves the row's channel,
\* credentials that decrypt, and a config for that channel. The caller holds
\* what getProvider returns for the tenant and the channel.
CarrierFor(channel) == IF channel = "email" THEN "aws_ses" ELSE "twilio"

ChannelConfigs(channel) ==
  { c \in Configs :
      CASE channel = "sms" -> c.whatsapp_number = Undef
        [] channel = "whatsapp" -> c.messaging_service_sid = Undef
        [] channel = "email" ->
             /\ c.phone_number = Undef
             /\ c.whatsapp_number = Undef
             /\ c.messaging_service_sid = Undef }

Init ==
  /\ tenants \in [TenantIds -> TenantRows]
  /\ env \in [ENCRYPTION_KEY : {Undef}, TWILIO_MESSAGING_SERVICE_SID : {Undef, "MGenv"}]
  /\ \E channel \in Channels :
     \E config \in ChannelConfigs(channel) :
       /\ tenants["t1"].is_demo => config = EmptyConfigured
       /\ credentials =
            [k \in TenantIds \X Channels |->
               IF k[2] = channel /\ ~tenants["t1"].is_demo
               THEN CredRow(CarrierFor(channel),
                            Encrypted(ProcessKey, JsonText(FullCredentials)),
                            JsonText(config))
               ELSE NoRow]
       /\ getProvider("t1", channel).out.kind = "return"
       /\ provider = getProvider("t1", channel).out.value
  /\ ledger = {}
  /\ now = 0
  /\ call = NoCall
  /\ result = NoResult
  /\ timeline = <<>>
  /\ sent = <<>>
  /\ tenant_business_info = [t \in TenantIds |-> NullObj]
  /\ tenant_10dlc_brands = {}

\* provider.send(message). No statement of any adapter's send writes
\* message_provider_mappings.
Send ==
  \E message \in Messages, carrier \in CarrierAnswers :
    /\ provider # NoProvider
    /\ call' = [op |-> "send", message |-> message]
    /\ result' = send(provider, message, carrier)
    /\ UNCHANGED <<tenants, credentials, env, ledger, now, provider, timeline,
                 sent, tenant_business_info, tenant_10dlc_brands>>

\* provider.parseWebhook(body, signature), the signature header being absent,
\* computed by the carrier under the tenant's token, or forged.
ParseWebhook ==
  \E body \in Bodies :
    \E signature \in { NoSignature,
                        Hmac(AuthToken, Or(provider.config.webhook_url, ""), body),
                        Hmac(AttackerToken, Or(provider.config.webhook_url, ""), body) } :
      /\ provider # NoProvider
      /\ call' = [op |-> "parseWebhook", body |-> body, signature |-> signature]
      /\ result' = Effect(parseWebhook(provider, body, signature), <<>>, <<>>, <<>>)
      /\ UNCHANGED <<tenants, credentials, env, ledger, now, provider, timeline,
                 sent, tenant_business_info, tenant_10dlc_brands>>

\* Time passes.
Tick ==
  /\ now < MaxClock
  /\ now' = now + 1
  /\ UNCHANGED <<tenants, credentials, env, ledger, provider, call, result, timeline,
                 sent, tenant_business_info, tenant_10dlc_brands>>

Next == Send \/ ParseWebhook \/ Tick

Spec == Init /\ [][Next]_vars

-----------------------------------------------------------------------------
(* Webhook deliveries *)

\* A status event of the carrier: what happened to the message and when, by
\* the carrier's clock.
StatusEvents == [status : {"delivered", "read"}, time : EventTimes]

\* The carrier message id the adapter's carrier gave the message.
CarrierIdOf(class) ==
  CASE class = "SESEmailProvider" -> "E1"
    [] class = "DemoProvider" -> "demo-m1-0"
    [] OTHER -> "CM123"

\* The callback the carrier posts for an event. A Twilio status callback
\* carries MessageSid and MessageStatus; an SES event carries its time in the
\* sub-object of its type (delivery for Delivery; an Open event has none of
\* delivery, bounce, complaint) and comes bare or in an SNS envelope; a
\* simulated demo callback carries provider_message_id, status and timestamp.
callbackBody(class, event, wrapped) ==
  CASE class = "SESEmailProvider" ->
         LET e == IF event.status = "delivered"
                  THEN SESEvent("Delivery", [messageId |-> CarrierIdOf(class)],
                                <<At(event.time), NullObj, NullObj>>)
                  ELSE SESEvent("Open", [messageId |-> CarrierIdOf(class)],
                                <<NullObj, NullObj, NullObj>>)
         IN IF wrapped THEN Envelope(JsonText(e)) ELSE e
    [] class = "DemoProvider" ->
         DemoBody(CarrierIdOf(class), event.status, event.time)
    [] OTHER -> TwilioBody(CarrierIdOf(class), event.status)

\* The webhook endpoint receives a callback and hands it to
\* provider.parseWebhook(body, signature), the signature header being absent,
\* the carrier's, or forged; the delivery is recorded with its arrival time
\* and what parseWebhook made of it.
Deliver ==
  \E event \in StatusEvents, wrapped \in BOOLEAN :
    LET body == callbackBody(provider.class, event, wrapped)
        url == Or(provider.config.webhook_url, "")
    IN \E signature \in {NoSignature, Hmac(AuthToken, url, body),
                          Hmac(AttackerToken, url, body)} :
         LET out == parseWebhook(provider, body, signature) IN
         /\ Len(timeline) < MaxEvents
         /\ wrapped => provider.class = "SESEmailProvider"
         /\ call' = [op |-> "parseWebhook", body |-> body, signature |-> signature]
         /\ result' = Effect(out, <<>>, <<>>, <<>>)
         /\ timeline' = Append(timeline, [event |-> event, body |-> body,
                                          signature |-> signature, at |-> now,
                                          out |-> out])
         /\ UNCHANGED <<tenants, credentials, env, ledger, now, provider,
                        sent, tenant_business_info, tenant_10dlc_brands>>

NextTimeline == Deliver \/ Tick

SpecTimeline == Init /\ [][NextTimeline]_vars

-----------------------------------------------------------------------------

(* Table message_provider_mappings *)

\* Rows of the table: id, message_id, channel, provider, provider_message_id
\* (NULL is Undef), provider_status.
MappingIds == {"r1", "r2", "r3"}
MappingRow(id, messageId, channel, providerName, pmid, status) ==
  [ id |-> id, message_id |-> messageId, channel |-> channel,
    provider |-> providerName, provider_message_id |-> pmid,
    provider_status |-> status ]
MappingRows ==
  { MappingRow(id, m, "sms", p, pmid, "sent") :
      id \in MappingIds, m \in MessageIds, p \in {"twilio", "demo"},
      pmid \in {Undef, "CM123", "CM124"} }

UniqueConstraintFailed == "UNIQUE constraint failed"

\* The schema without UNIQUE on provider_message_id
admits_noCarrierIdUnique(table, row) ==
  /\ \A r \in table : r.id # row.id
  /\ \A r \in table : ~(r.message_id = row.message_id /\ r.provider = row.provider)

\* The constraints of the schema on a new row: id PRIMARY KEY,
\* provider_message_id UNIQUE (any number of NULLs), UNIQUE(message_id, provider).
admits(table, row) ==
  /\ \A r \in table : r.id # row.id
  /\ row.provider_message_id # Undef
       => \A r \in table : r.provider_message_id # row.provider_message_id
  /\ \A r \in table : ~(r.message_id = row.message_id /\ r.provider = row.provider)

InitLedger ==
  /\ tenants \in [TenantIds -> TenantRows]
  /\ credentials = [k \in TenantIds \X Channels |-> NoRow]
  /\ env = [ENCRYPTION_KEY |-> Undef, TWILIO_MESSAGING_SERVICE_SID |-> Undef]
  /\ ledger = {}
  /\ now = 0
  /\ provider = NoProvider
  /\ call = NoCall
  /\ result = NoResult
  /\ timeline = <<>>
  /\ sent = <<>>
  /\ tenant_business_info = [t \in TenantIds |-> NullObj]
  /\ tenant_10dlc_brands = {}

\* INSERT INTO message_provider_mappings: the row is stored when the schema
\* admits it, the statement fails otherwise.
InsertMapping ==
  \E row \in MappingRows :
    /\ call' = [op |-> "insertMapping"]
    /\ IF admits(ledger, row)
       THEN /\ ledger' = ledger \cup {row}
            /\ result' = Effect(Return(NullObj), <<>>, <<>>, <<>>)
       ELSE /\ ledger' = ledger
            /\ result' = Effect(Throw(UniqueConstraintFailed), <<>>, <<>>, <<>>)
    /\ UNCHANGED <<tenants, credentials, env, now, provider, timeline,
                 sent, tenant_business_info, tenant_10dlc_brands>>

\* UPDATE message_provider_mappings SET provider_status = ? WHERE
\* provider_message_id = ?
UpdateMappingStatus ==
  \E pmid \in {"CM123", "CM124"}, status \in {"delivered", "failed"} :
    /\ call' = [op |-> "updateMappingStatus"]
    /\ ledger' = { IF r.provider_message_id = pmid
                   THEN [r EXCEPT !.provider_status = status] ELSE r : r \in ledger }
    /\ result' = Effect(Return(NullObj), <<>>, <<>>, <<>>)
    /\ UNCHANGED <<tenants, credentials, env, now, provider, timeline,
                 sent, tenant_business_info, tenant_10dlc_brands>>

NextLedger == InsertMapping \/ UpdateMappingStatus

SpecLedger == InitLedger /\ [][NextLedger]_vars

-----------------------------------------------------------------------------

(* The demo adapter in use *)

\* The tenant is a demo tenant: the caller holds a DemoProvider.
InitDemo == Init /\ tenants["t1"].is_demo

\* provider.send(message), recorded with the message id and the clock value
\* of the call.
SendRecorded ==
  \E message \in Messages, carrier \in CarrierAnswers :
    LET r == send(provider, message, carrier) IN
    /\ Len(sent) < MaxSends
    /\ call' = [op |-> "send", message |-> message]
    /\ result' = r
    /\ sent' = Append(sent, [id |-> IF message = NullObj THEN Undef ELSE message.id,
                             at |-> now, out |-> r.out])
    /\ UNCHANGED <<tenants, credentials, env, ledger, now, provider, timeline,
                   tenant_business_info, tenant_10dlc_brands>>

\* DemoProvider.getDemoDelays()
GetDemoDelays ==
  \E r1 \in RandomDraws, r2 \in RandomDraws :
    /\ call' = [op |-> "getDemoDelays"]
    /\ result' = Effect(Return(getDemoDelays(r1, r2)), <<>>, <<>>, <<>>)
    /\ UNCHANGED <<tenants, credentials, env, ledger, now, provider, timeline,
                   sent, tenant_business_info, tenant_10dlc_brands>>

NextDemo == SendRecorded \/ GetDemoDelays \/ Tick

SpecDemo == InitDemo /\ [][NextDemo]_vars

-----------------------------------------------------------------------------

(* The factory and an adapter in use *)

\* One tenant, at most one credential row (any row a table can hold), no
\* adapter resolved yet: getProvider resolves the one the methods are called on.
InitCore ==
  /\ tenants \in [TenantIds -> {NoTenant} \cup TenantRows]
  /\ \E channel \in Channels :
     \E row \in {NoRow} \cup FactoryRows :
       credentials = [k \in TenantIds \X Channels |->
                        IF k[2] = channel THEN row ELSE NoRow]
  /\ tenants["t1"] # NoTenant /\ tenants["t1"].is_demo
       => \A k \in TenantIds \X Channels : credentials[k] = NoRow
  /\ env \in [ENCRYPTION_KEY : {Undef, OtherKey}, TWILIO_MESSAGING_SERVICE_SID : {Undef}]
  /\ ledger = {}
  /\ now = 0
  /\ provider = NoProvider
  /\ call = NoCall
  /\ result = NoResult
  /\ timeline = <<>>
  /\ sent = <<>>
  /\ tenant_business_info = [t \in TenantIds |-> NullObj]
  /\ tenant_10dlc_brands = {}

\* verifyProvider deleting the credential row it could not verify
VerifyProvider_dropsUnverified ==
  \E tenantId \in TenantIds, channel \in Channels, answer \in AccountAnswers :
    LET r == verifyProvider(tenantId, channel, answer) IN
    /\ call' = [op |-> "verifyProvider", tenantId |-> tenantId, channel |-> channel]
    /\ result' = r
    /\ credentials' =
         IF r.out.kind = "return" /\ ~r.out.value.success
         THEN [credentials EXCEPT ![<<tenantId, channel>>] = NoRow]
         ELSE credentials
    /\ UNCHANGED <<tenants, env, ledger, now, provider, timeline,
                   sent, tenant_business_info, tenant_10dlc_brands>>

\* verifyProvider(tenantId, channel): no statement of it writes a table.
VerifyProvider ==
  \E tenantId \in TenantIds, channel \in Channels, answer \in AccountAnswers :
    /\ call' = [op |-> "verifyProvider", tenantId |-> tenantId, channel |-> channel]
    /\ result' = verifyProvider(tenantId, channel, answer)
    /\ UNCHANGED <<tenants, credentials, env, ledger, now, provider, timeline,
                   sent, tenant_business_info, tenant_10dlc_brands>>

\* provider.verify()
Verify ==
  \E answer \in AccountAnswers :
    /\ provider # NoProvider
    /\ call' = [op |-> "verify"]
    /\ result' = verify(provider, answer)
    /\ UNCHANGED <<tenants, credentials, env, ledger, now, provider, timeline,
                   sent, tenant_business_info, tenant_10dlc_brands>>

\* provider.getStatus()
GetStatus ==
  \E answer \in AccountAnswers :
    /\ provider # NoProvider
    /\ call' = [op |-> "getStatus"]
    /\ result' = getStatus(provider, answer)
    /\ UNCHANGED <<tenants, credentials, env, ledger, now, provider, timeline,
                   sent, tenant_business_info, tenant_10dlc_brands>>

NextCore ==
  \/ GetProvider
  \/ GetAllProviders
  \/ VerifyProvider
  \/ Send
  \/ Verify
  \/ provider # NoProvider /\ ParseWebhook
  \/ GetStatus
  \/ Tick

SpecCore == InitCore /\ [][NextCore]_vars

-----------------------------------------------------------------------------

(* POST /api/business-info/submit-10dlc *)

\* What uuidv4() can return. tenant_10dlc_brands.id is the primary key: an
\* id the table already holds makes the INSERT throw.
BrandIds == {"b1", "b2", "b3"}

\* The tenant's row of tenant_business_info.
BusinessInfo == [legal_business_name |-> "Acme LLC"]

\* submit-10dlc marking the tenant's earlier registrations as superseded
submit10dlc_supersedesEarlier(tenantId, brandId, accepts, audited) ==
  LET businessInfo == tenant_business_info[tenantId]
      tenant == tenants[tenantId]
      failed == [status |-> 500, data |-> NullObj]
  IN IF businessInfo = NullObj
     THEN [status |-> 400, data |-> NullObj, brands |-> tenant_10dlc_brands]
     ELSE IF tenant = NoTenant
     THEN failed @@ [brands |-> tenant_10dlc_brands]
     ELSE LET row ==
                IF tenant.is_demo
                THEN [id |-> brandId, tenant_id |-> tenantId, provider |-> "demo",
                      provider_brand_id |-> "DEMO-" \o ToString(now),
                      provider_status |-> "APPROVED",
                      legal_business_name |-> businessInfo.legal_business_name]
                ELSE [id |-> brandId, tenant_id |-> tenantId, provider |-> "twilio",
                      provider_brand_id |-> "PENDING",
                      provider_status |-> "PENDING",
                      legal_business_name |-> businessInfo.legal_business_name]
              inserted == tenant_10dlc_brands \cup {row}
          IN IF ~accepts \/ \E b \in tenant_10dlc_brands : b.id = brandId
             THEN failed @@ [brands |-> tenant_10dlc_brands]
             ELSE IF ~audited THEN failed @@ [brands |-> inserted]
             ELSE [status |-> 201,
                   data |-> [brand_id |-> brandId, status |-> row.provider_status],
                   brands |-> { [b EXCEPT !.provider_status = "SUPERSEDED"] :
                                  b \in tenant_10dlc_brands } \cup {row}]

\* The handler of the route, after the authentication middleware, for
\* req.tenantId = tenantId, uuidv4() = brandId, the database accepting the
\* INSERT or not (accepts) and logAudit returning or throwing (audited). The
\* result is the response and the table as the handler leaves it.
submit10dlc(tenantId, brandId, accepts, audited) ==
  LET businessInfo == tenant_business_info[tenantId]
      tenant == tenants[tenantId]
      failed == [status |-> 500, data |-> NullObj]
  IN IF businessInfo = NullObj
     THEN [status |-> 400, data |-> NullObj, brands |-> tenant_10dlc_brands]
     ELSE IF tenant = NoTenant
     THEN failed @@ [brands |-> tenant_10dlc_brands]
     ELSE LET row ==
                IF tenant.is_demo
                THEN [id |-> brandId, tenant_id |-> tenantId, provider |-> "demo",
                      provider_brand_id |-> "DEMO-" \o ToString(now),
                      provider_status |-> "APPROVED",
                      legal_business_name |-> businessInfo.legal_business_name]
                ELSE [id |-> brandId, tenant_id |-> tenantId, provider |-> "twilio",
                      provider_brand_id |-> "PENDING",
                      provider_status |-> "PENDING",
                      legal_business_name |-> businessInfo.legal_business_name]
              inserted == tenant_10dlc_brands \cup {row}
          IN IF ~accepts \/ \E b \in tenant_10dlc_brands : b.id = brandId
             THEN failed @@ [brands |-> tenant_10dlc_brands]
             ELSE IF ~audited THEN failed @@ [brands |-> inserted]
             ELSE [status |-> 201,
                   data |-> [brand_id |-> brandId, status |-> row.provider_status],
                   brands |-> inserted]

\* A tenant (or none), with or without its business information, and no
\* brand registration yet.
InitBrands ==
  /\ tenants \in [TenantIds -> {NoTenant} \cup TenantRows]
  /\ credentials = [k \in TenantIds \X Channels |-> NoRow]
  /\ env = [ENCRYPTION_KEY |-> Undef, TWILIO_MESSAGING_SERVICE_SID |-> Undef]
  /\ ledger = {}
  /\ now = 0
  /\ provider = NoProvider
  /\ call = NoCall
  /\ result = NoResult
  /\ timeline = <<>>
  /\ sent = <<>>
  /\ tenant_business_info \in [TenantIds -> {NullObj, BusinessInfo}]
  /\ tenant_10dlc_brands = {}

Submit10dlc ==
  \E tenantId \in TenantIds, brandId \in BrandIds, accepts \in BOOLEAN,
     audited \in BOOLEAN :
    LET r == submit10dlc(tenantId, brandId, accepts, audited) IN
    /\ call' = [op |-> "submit10dlc", tenantId |-> tenantId]
    /\ result' = [status |-> r.status, data |-> r.data]
    /\ tenant_10dlc_brands' = r.brands
    /\ UNCHANGED <<tenants, credentials, env, ledger, now, provider, timeline,
                   sent, tenant_business_info>>

NextBrands == Submit10dlc \/ Tick

SpecBrands == InitBrands /\ [][NextBrands]_vars

-----------------------------------------------------------------------------

(* Properties *)

\* The tenant and the credential row a getProvider call is about.
CalledTenant == tenants[call.tenantId]
CalledRow == credentials[<<call.tenantId, call.channel>>]
Resolving == call.op = "getProvider"
ResolvingConfigured ==
  /\ Resolving
  /\ CalledTenant # NoTenant
  /\ ~CalledTenant.is_demo
  /\ CalledRow # NoRow
Undecryptable(row) == decryptCredentials(row.credentials_json_encrypted).kind = "throw"
ConfigParses(row) ==
  row.provider_config_json = NoText \/ row.provider_config_json.wellFormed

\* The static compatibility table of the specification, section 4.2 step 5.
CompatibilityTable ==
  ({"twilio"} \X {"sms", "whatsapp"}) \cup ({"aws_ses"} \X {"email"})
    \cup ({"demo"} \X Channels)
\* The pairs C5 names: a known carrier with a channel it does not serve, or
\* an unknown carrier name.
UnsupportedPairs ==
  ({"twilio"} \X {"email"}) \cup ({"aws_ses"} \X {"sms", "whatsapp"})
    \cup ({"sendgrid"} \X Channels)

Sending == call.op = "send"
Parsing == call.op = "parseWebhook"

\* C1: whenever send has returned success:true with a carrier message id, the
\* mapping ledger holds the row (message id, channel, carrier name, carrier
\* message id) at the moment send returns.
C1_LedgerRowOnSuccess ==
  (Sending /\ result.out.kind = "return" /\ result.out.value.success)
    => \E row \in ledger :
         /\ row.message_id = call.message.id
         /\ row.channel = provider.channel
         /\ row.provider = result.out.value.provider
         /\ row.provider_message_id = result.out.value.provider_message_id

\* C2: for a tenant that exists and is flagged demo, getProvider returns a
\* DemoProvider for every channel whatever credential row is stored, and it
\* reads no credential row.
C2_DemoTenantAlwaysDemo ==
  (Resolving /\ CalledTenant # NoTenant /\ CalledTenant.is_demo)
    => /\ result.out.kind = "return"
       /\ result.out.value.class = "DemoProvider"
       /\ result.out.value.channel = call.channel
       /\ result.reads = <<>>

\* a demo tenant resolved over a row that names an unknown carrier and does
\* not decrypt
C2_Witness ==
  /\ Resolving /\ CalledTenant # NoTenant /\ CalledTenant.is_demo
  /\ CalledRow # NoRow
  /\ CalledRow.provider = "sendgrid"
  /\ Undecryptable(CalledRow)
  /\ result.out.kind = "return"

\* C3: for an existing non-demo tenant and a channel with no credential row,
\* getProvider fails with ChannelNotConfigured and constructs no adapter.
C3_NoRowNotConfigured ==
  (Resolving /\ CalledTenant # NoTenant /\ ~CalledTenant.is_demo /\ CalledRow = NoRow)
    => /\ result.out = Throw(ChannelNotConfigured)
       /\ result.built = <<>>

\* a non-demo tenant resolved for a channel without a row while another
\* channel has one
C3_Witness ==
  /\ Resolving /\ CalledTenant # NoTenant /\ ~CalledTenant.is_demo
  /\ CalledRow = NoRow
  /\ \E ch \in Channels : credentials[<<call.tenantId, ch>>] # NoRow
  /\ result.out.kind = "throw"

\* C4: for a tenant id that is not in the tenants table, getProvider fails
\* with TenantNotFound for every channel, whatever credential rows exist under
\* that tenant id.
C4_AbsentTenantNotFound ==
  (Resolving /\ CalledTenant = NoTenant)
    => /\ result.out = Throw(TenantNotFound)
       /\ result.built = <<>>

\* an absent tenant resolved for a channel that has a usable Twilio row
C4_Witness ==
  /\ Resolving /\ CalledTenant = NoTenant
  /\ CalledRow # NoRow
  /\ CalledRow.provider = "twilio" /\ call.channel = "sms"
  /\ ~Undecryptable(CalledRow)
  /\ result.out.kind = "throw"

\* C5 as stated: for a non-demo tenant whose credential row names a pair
\* outside the compatibility table, getProvider fails with
\* UnsupportedCarrierForChannel and no adapter constructor is invoked.
C5_UnsupportedPairFails_Original ==
  (ResolvingConfigured /\ <<CalledRow.provider, call.channel>> \in UnsupportedPairs)
    => /\ result.out.kind = "throw"
       /\ result.out.error \in UnsupportedCarrierForChannel
       /\ result.built = <<>>

\* C5 as amended: the same, for a row whose credential blob is NULL or
\* decrypts and whose config text is NULL or JSON; any other row fails
\* earlier, with the decryption or the JSON error.
C5_UnsupportedPairFails ==
  (/\ ResolvingConfigured
   /\ <<CalledRow.provider, call.channel>> \in UnsupportedPairs
   /\ ~Undecryptable(CalledRow)
   /\ ConfigParses(CalledRow))
    => /\ result.out.kind = "throw"
       /\ result.out.error \in UnsupportedCarrierForChannel
       /\ result.built = <<>>

\* the SMS carrier resolved for email with credentials that decrypt
C5_Witness ==
  /\ ResolvingConfigured
  /\ CalledRow.provider = "twilio" /\ call.channel = "email"
  /\ ~Undecryptable(CalledRow)
  /\ CalledRow.credentials_json_encrypted # NoBlob
  /\ result.out = Throw(TwilioUnsupportedChannel)

\* C6: for a non-demo tenant with a decryptable, complete credential row,
\* getProvider returns an adapter for every pair of the compatibility table
\* (twilio: sms, whatsapp; aws_ses: email; demo: all three), and the adapter's
\* class lists the channel in getSupportedChannels().
C6_CompatibleResolves ==
  (/\ ResolvingConfigured
   /\ <<CalledRow.provider, call.channel>> \in CompatibilityTable
   /\ CalledRow.credentials_json_encrypted # NoBlob
   /\ ~Undecryptable(CalledRow)
   /\ decryptCredentials(CalledRow.credentials_json_encrypted).value = FullCredentials
   /\ ConfigParses(CalledRow))
    => /\ result.out.kind = "return"
       /\ call.channel \in getSupportedChannels(result.out.value.class)

\* C7: getAllProviders never fails; its keys are exactly the channels for
\* which getProvider succeeds, each mapped to the adapter getProvider returns.
C7_AllProvidersPartial ==
  (call.op = "getAllProviders")
    => /\ result.out.kind = "return"
       /\ DOMAIN result.out.value =
            { ch \in Channels : getProvider(call.tenantId, ch).out.kind = "return" }
       /\ \A ch \in DOMAIN result.out.value :
            result.out.value[ch] = getProvider(call.tenantId, ch).out.value

\* sms and email resolve, whatsapp does not
C7_Witness ==
  /\ call.op = "getAllProviders"
  /\ result.out.kind = "return"
  /\ DOMAIN result.out.value = {"sms", "email"}
  /\ getProvider(call.tenantId, "whatsapp").out.kind = "throw"

\* C8: for every adapter and every message, null included, and whatever the
\* carrier answers, send returns a value, and a failure value carries an
\* error and the provider's name; it never throws.
C8_SendNeverThrows ==
  Sending
    => /\ result.out.kind = "return"
       /\ ~result.out.value.success
            => /\ Truthy(result.out.value.error)
               /\ Truthy(result.out.value.provider)

\* C9: for every adapter and every (body, signature), parseWebhook returns a
\* value; a null body, a failed signature check and a result without a carrier
\* message id are failures, and every failure has an error, status "unknown"
\* and no carrier message id.
C9_ParseNeverThrows ==
  Parsing
    => /\ result.out.kind = "return"
       /\ LET v == result.out.value
              failed == \/ Truthy(v.error)
                        \/ Falsy(v.provider_message_id)
                        \/ call.body = NullObj
                        \/ /\ provider.class \in {"TwilioSmsProvider",
                                                  "TwilioWhatsAppProvider"}
                           /\ ~verifyWebhookSignature(provider, call.body,
                                                      call.signature)
          IN failed => /\ Truthy(v.error)
                       /\ v.status = "unknown"
                       /\ Falsy(v.provider_message_id)

\* the SES adapter given an envelope whose message is not JSON
C9_Witness ==
  /\ Parsing
  /\ provider.class = "SESEmailProvider"
  /\ call.body = Envelope(BadJson)
  /\ result.out.kind = "return"
  /\ result.out.value.error = SyntaxError

\* C10: TwilioSmsProvider.send with a recipient present rejects the message
\* for a missing sender only when neither a messaging-service identifier
\* (config or environment) nor a from-number (message or config) is available;
\* when either one is available the send reaches the carrier.
C10_SenderResolvable ==
  (/\ Sending
   /\ provider.class = "TwilioSmsProvider"
   /\ call.message # NullObj
   /\ Truthy(call.message.phone_number))
    => LET sid == Or(provider.config.messaging_service_sid,
                     env.TWILIO_MESSAGING_SERVICE_SID)
           from == Or(call.message.from_number, provider.config.phone_number)
       IN IF Falsy(sid) /\ Falsy(from)
          THEN /\ result.calls = <<>>
               /\ result.out.kind = "return"
               /\ ~result.out.value.success
          ELSE Len(result.calls) = 1

\* A message is complete for the adapter's channel: SMS and WhatsApp need a
\* recipient, content and a resolvable sender; email needs recipient, subject,
\* body and sender address.
CompleteFor(self, message) ==
  /\ message # NullObj
  /\ CASE self.class = "TwilioSmsProvider" ->
            /\ Truthy(message.phone_number)
            /\ Truthy(message.content)
            /\ \/ Truthy(Or(self.config.messaging_service_sid,
                            env.TWILIO_MESSAGING_SERVICE_SID))
               \/ Truthy(Or(message.from_number, self.config.phone_number))
       [] self.class = "TwilioWhatsAppProvider" ->
            /\ Truthy(message.phone_number)
            /\ Truthy(message.content)
            /\ Truthy(Or(message.from_number, self.config.whatsapp_number))
       [] self.class = "SESEmailProvider" ->
            /\ Truthy(message.to_email)
            /\ Truthy(message.subject)
            /\ Truthy(message.html_body)
            /\ Truthy(message.from_email)
       [] OTHER -> TRUE

\* C11: the send of a carrier adapter (Twilio SMS, Twilio WhatsApp, SES) calls
\* the carrier API only for a message that is complete for its channel; for
\* an incomplete message it makes no carrier call and returns success:false
\* with an error.
C11_CompleteBeforeCarrier ==
  (/\ Sending
   /\ provider.class \in {"TwilioSmsProvider", "TwilioWhatsAppProvider",
                          "SESEmailProvider"})
    => /\ result.calls # <<>> => CompleteFor(provider, call.message)
       /\ ~CompleteFor(provider, call.message)
            => /\ result.calls = <<>>
               /\ result.out.kind = "return"
               /\ ~result.out.value.success
               /\ Truthy(result.out.value.error)

\* The signature of the call is the one the carrier computes over the posted
\* body under the tenant's auth token and the configured webhook URL.
SignedByCarrier ==
  /\ call.body # NullObj
  /\ call.signature = Hmac(AuthToken, Or(provider.config.webhook_url, ""), call.body)
ParsingTwilio ==
  Parsing /\ provider.class \in {"TwilioSmsProvider", "TwilioWhatsAppProvider"}

\* C12: the parseWebhook of the Twilio SMS and WhatsApp adapters returns a
\* carrier message id and a normalized status only when the signature of
\* (body, signature) verifies; when verification fails or throws the result is
\* {error, status: "unknown"} and carries no field of the body.
C12_SignatureBeforeFields ==
  ParsingTwilio
    => /\ result.out.kind = "return"
       /\ Truthy(result.out.value.provider_message_id) => SignedByCarrier
       /\ ~SignedByCarrier
            => /\ result.out.value.error = InvalidSignature
               /\ result.out.value.status = "unknown"
               /\ result.out.value.provider_message_id = Undef
               /\ result.out.value.raw = NullObj
               /\ result.out.value.timestamp = NoTime

\* a well-formed status callback signed under another token is refused
C12_Witness ==
  /\ ParsingTwilio
  /\ call.body = TwilioBody("CM123", "delivered")
  /\ call.signature = Hmac(AttackerToken, Or(provider.config.webhook_url, ""), call.body)
  /\ result.out.value.error = InvalidSignature
  /\ result.out.value.provider_message_id = Undef

\* A delivery whose parse result is handed onward: parseWebhook returned a
\* result without error.
HandedOnward(d) == d.out.kind = "return" /\ Falsy(d.out.value.error)

\* C13: of two status events for one carrier message id with event times
\* t1 < t2 that arrive in the order t2 then t1, the results handed onward
\* carry the timestamps t2 and t1 respectively, so sorting by timestamp puts
\* the t1 event first; for every adapter.
C13_EventTimestampsKept ==
  \A i, j \in 1..Len(timeline) :
    (/\ i < j
     /\ timeline[i].event.time > timeline[j].event.time
     /\ HandedOnward(timeline[i])
     /\ HandedOnward(timeline[j]))
      => /\ timeline[i].out.value.timestamp = timeline[i].event.time
         /\ timeline[j].out.value.timestamp = timeline[j].event.time
         /\ timeline[j].out.value.timestamp < timeline[i].out.value.timestamp

\* Two deliveries of the same call: the same body with the same signature.
SameCall(d, e) == d.body = e.body /\ d.signature = e.signature
SameAnswer(d, e) ==
  /\ d.out.kind = "return"
  /\ e.out.kind = "return"
  /\ d.out.value.provider_message_id = e.out.value.provider_message_id
  /\ d.out.value.status = e.out.value.status
  /\ d.out.value.error = e.out.value.error

\* C14: for every adapter, two parseWebhook calls with the same body and
\* signature yield the same carrier message id and the same normalized status,
\* or the same error, whatever time passes between them; and a parseWebhook
\* call changes no field of the adapter and no stored row.
C14_ParseIdempotent ==
  /\ [](\A i, j \in 1..Len(timeline) :
          SameCall(timeline[i], timeline[j]) => SameAnswer(timeline[i], timeline[j]))
  /\ [][timeline' # timeline
          => UNCHANGED <<provider, tenants, credentials, env, ledger>>]_vars

\* the same callback delivered twice, at two clock values
C14_Witness ==
  /\ Len(timeline) = 2
  /\ SameCall(timeline[1], timeline[2])
  /\ timeline[1].at # timeline[2].at
  /\ HandedOnward(timeline[2])

\* SELECT message_id FROM message_provider_mappings WHERE provider_message_id = ?
lookupByCarrierId(pmid) ==
  { r.message_id : r \in { x \in ledger : x.provider_message_id = pmid } }

\* C15: in every state of the mapping ledger no two rows share a non-null
\* carrier message id and no two rows share (message id, carrier name), so a
\* lookup by carrier message id yields at most one internal message id.
C15_LedgerUnique ==
  /\ \A r, s \in ledger :
       r # s => /\ r.provider_message_id = Undef
                   \/ r.provider_message_id # s.provider_message_id
                /\ ~(r.message_id = s.message_id /\ r.provider = s.provider)
  /\ \A pmid \in {"CM123", "CM124"} : Cardinality(lookupByCarrierId(pmid)) <= 1

\* an insert of a second row under a carrier message id already stored was
\* refused, beside two rows without carrier message id
C15_Witness ==
  /\ call.op = "insertMapping"
  /\ result.out.kind = "throw"
  /\ \E r \in ledger : r.provider_message_id = "CM123"
  /\ \E r, s \in ledger : r # s /\ r.provider_message_id = Undef
                                /\ s.provider_message_id = Undef

\* C16: the status of every successful parseWebhook result of every adapter,
\* and the status of every successful send, is one of sent, delivered, read,
\* failed, unknown, whatever the raw carrier status or event type.
C16_StatusNormalized ==
  /\ (Parsing /\ result.out.kind = "return" /\ Falsy(result.out.value.error))
       => result.out.value.status \in NormalizedStatuses
  /\ (Sending /\ result.out.kind = "return" /\ result.out.value.success)
       => result.out.value.status \in NormalizedStatuses

\* a signed Twilio callback with the raw status "queued" parses to "unknown"
C16_Witness ==
  /\ ParsingTwilio
  /\ SignedByCarrier
  /\ call.body.MessageStatus = "queued"
  /\ Falsy(result.out.value.error)
  /\ result.out.value.provider_message_id = "CM123"
  /\ result.out.value.status = "unknown"

ParsingSES == Parsing /\ provider.class = "SESEmailProvider"

\* The body of the call is the SES event e, bare or in an SNS envelope.
Carries(e) == call.body = e \/ call.body = Envelope(JsonText(e))
HasMessageId(e) == e.mail # NullObj /\ Truthy(e.mail.messageId)

\* The mapping the specification states for SES event types.
SESStatusOf ==
  [ Send |-> "sent", Delivery |-> "delivered", Bounce |-> "failed",
    Complaint |-> "failed", Open |-> "read", Click |-> "read" ]

\* C17: SESEmailProvider.parseWebhook maps the event type of an event that
\* carries a message id: Send to sent, Delivery to delivered, Bounce and
\* Complaint to failed, Open and Click to read; and the result reports the
\* original event type.
C17_SESMapping ==
  ParsingSES
    => \A e \in SESEvents :
         (Carries(e) /\ HasMessageId(e) /\ e.eventType \in DOMAIN SESStatusOf)
           => /\ result.out.kind = "return"
              /\ Falsy(result.out.value.error)
              /\ result.out.value.status = SESStatusOf[e.eventType]
              /\ result.out.value.event_type = e.eventType

\* a Click event for E1 is read as "read" and reported as Click
C17_Witness ==
  /\ ParsingSES
  /\ call.body = SESEvent("Click", [messageId |-> "E1"], <<NullObj, NullObj, NullObj>>)
  /\ result.out.value.status = "read"
  /\ result.out.value.event_type = "Click"

\* C18: for every SES event e, SESEmailProvider.parseWebhook applied to the
\* envelope {Type: "Notification", Message: <e as a JSON string>} returns the
\* same carrier message id, status and event type as applied to e itself.
C18_EnvelopeTransparent ==
  ParsingSES
    => \A e \in SESEvents :
         call.body = Envelope(JsonText(e))
           => LET direct == SESEmailProvider_parseWebhook(provider, e, call.signature)
              IN /\ result.out.kind = "return"
                 /\ direct.kind = "return"
                 /\ result.out.value.provider_message_id
                      = direct.value.provider_message_id
                 /\ result.out.value.status = direct.value.status
                 /\ result.out.value.event_type = direct.value.event_type

\* a wrapped Bounce event for E1 parses to (E1, failed, Bounce)
C18_Witness ==
  /\ ParsingSES
  /\ call.body = Envelope(JsonText(SESEvent("Bounce", [messageId |-> "E1"],
                                            <<NullObj, NullObj, NullObj>>)))
  /\ result.out.value.provider_message_id = "E1"
  /\ result.out.value.status = "failed"
  /\ result.out.value.event_type = "Bounce"

\* C19: SESEmailProvider.parseWebhook returns {error, status: "unknown"} for
\* every event, bare or wrapped, without mail.messageId, whatever its event
\* type; no result without error has an absent or empty carrier message id.
C19_SESNeedsMessageId ==
  ParsingSES
    => /\ result.out.kind = "return"
       /\ Falsy(result.out.value.error)
            => Truthy(result.out.value.provider_message_id)
       /\ \A e \in SESEvents :
            (Carries(e) /\ ~HasMessageId(e))
              => /\ result.out.value.error = InvalidSESEvent
                 /\ result.out.value.status = "unknown"
                 /\ result.out.value.provider_message_id = Undef
                 /\ result.out.value.event_type = Undef

\* a wrapped Delivery event whose mail object has no messageId
C19_Witness ==
  /\ ParsingSES
  /\ call.body = Envelope(JsonText(SESEvent("Delivery", [messageId |-> Undef],
                                            <<NullObj, NullObj, NullObj>>)))
  /\ result.out.value.error = InvalidSESEvent
  /\ result.out.value.status = "unknown"

SendingDemo == Sending /\ provider.class = "DemoProvider"

\* The result of a simulated send: success, status "sent", demo, a carrier
\* message id that begins with "demo-", and no carrier call.
DemoSent ==
  /\ result.out.kind = "return"
  /\ result.out.value.success
  /\ result.out.value.status = "sent"
  /\ result.out.value.demo
  /\ Len(result.out.value.provider_message_id) > 5
  /\ SubSeq(result.out.value.provider_message_id, 1, 5) = "demo-"
  /\ result.calls = <<>>

\* C20: for every message (an object, whatever fields it carries),
\* DemoProvider.send returns success:true, status "sent" and demo:true with a
\* carrier message id that begins with "demo-", and makes no carrier call.
C20_DemoSendSucceeds ==
  (SendingDemo /\ call.message # NullObj) => DemoSent

\* the demo adapter sent message m2 after the clock moved
C20_Witness ==
  /\ SendingDemo
  /\ call.message # NullObj
  /\ call.message.id = "m2"
  /\ now = 1
  /\ result.out.value.provider_message_id = "demo-m2-1"
  /\ result.out.value.success

\* A recorded send that returned a carrier message id.
ReturnedId(s) ==
  /\ s.out.kind = "return"
  /\ s.out.value.success
  /\ Truthy(s.out.value.provider_message_id)

\* C21: after any sequence of DemoProvider.send calls, whatever the message
\* ids and the clock values, no two calls have returned the same carrier
\* message id.
C21_DemoIdsUnique ==
  provider.class = "DemoProvider"
    => \A i, j \in 1..Len(sent) :
         (i # j /\ ReturnedId(sent[i]) /\ ReturnedId(sent[j]))
           => sent[i].out.value.provider_message_id
                # sent[j].out.value.provider_message_id

GettingDelays == call.op = "getDemoDelays" /\ result.out.kind = "return"

\* C26: every result of DemoProvider.getDemoDelays has sent_delay 0,
\* delivered_delay between 3000 and 5000 ms and read_delay between 5000 and
\* 10000 ms, so delivered_delay never exceeds read_delay and the simulated
\* order is sent, delivered, read.
C26_DemoDelayRanges ==
  GettingDelays
    => LET d == result.out.value IN
       /\ d.sent_delay = 0
       /\ 3000 <= d.delivered_delay /\ d.delivered_delay <= 5000
       /\ 5000 <= d.read_delay /\ d.read_delay <= 10000
       /\ d.sent_delay <= d.delivered_delay
       /\ d.delivered_delay <= d.read_delay

\* the latest delivered delay drawn together with the earliest read delay
C26_Witness ==
  /\ GettingDelays
  /\ result.out.value.delivered_delay > 4000
  /\ result.out.value.read_delay = 5000

\* The blob cannot be decrypted or parsed: it was written under another key
\* than the process's, its plaintext is not a JSON text, or damage to the
\* ciphertext broke the padding or the JSON syntax.
Unreadable(blob) ==
  /\ blob # NoBlob
  /\ \/ blob.key # Or(env.ENCRYPTION_KEY, ProcessKey)
     \/ ~blob.plaintext.wellFormed
     \/ IsDamaged(blob) /\ blob.damage \in {"padding", "syntax"}

\* C22: for a non-demo tenant whose credential row holds a blob that cannot
\* be decrypted or parsed (corrupt blob or wrong key), getProvider fails with
\* InvalidCredentials and constructs no adapter; and what decryptCredentials
\* hands to an adapter is null for no blob or the very object that was
\* encrypted, never a partial or garbage object.
C22_UndecryptableIsInvalid ==
  /\ (ResolvingConfigured /\ Unreadable(CalledRow.credentials_json_encrypted))
       => /\ result.out = Throw(InvalidCredentials)
          /\ result.built = <<>>
  /\ (ResolvingConfigured /\ result.out.kind = "return")
       => LET blob == CalledRow.credentials_json_encrypted IN
          /\ decryptCredentials(blob).kind = "return"
          /\ decryptCredentials(blob).value
               = IF blob = NoBlob THEN NullObj ELSE blob.plaintext.value
          /\ result.out.value.credentials = decryptCredentials(blob).value

SendingWhatsApp == Sending /\ provider.class = "TwilioWhatsAppProvider"
HasWhatsAppPrefix(number) ==
  Len(number) > 9 /\ SubSeq(number, 1, 9) = "whatsapp:"

\* C23: TwilioWhatsAppProvider.send requires a WhatsApp-specific sender: with
\* no from_number on the message and no whatsapp_number in the config, the
\* plain SMS phone_number being configured or not, it fails validation
\* without calling the carrier; on every carrier call both the sender and the
\* recipient carry the "whatsapp:" prefix.
C23_WhatsAppSender ==
  SendingWhatsApp
    => /\ (/\ call.message # NullObj
           /\ Falsy(call.message.from_number)
           /\ Falsy(provider.config.whatsapp_number))
            => /\ result.calls = <<>>
               /\ result.out.kind = "return"
               /\ ~result.out.value.success
               /\ result.out.value.error = NoWhatsAppNumber
       /\ \A k \in 1..Len(result.calls) :
            /\ HasWhatsAppPrefix(result.calls[k].from)
            /\ HasWhatsAppPrefix(result.calls[k].to)

\* only the SMS number is configured and the message names no sender
C23_Witness ==
  /\ SendingWhatsApp
  /\ call.message # NullObj
  /\ Truthy(call.message.phone_number)
  /\ Falsy(call.message.from_number)
  /\ Truthy(provider.config.phone_number)
  /\ Falsy(provider.config.whatsapp_number)
  /\ result.calls = <<>>
  /\ result.out.value.error = NoWhatsAppNumber

SendingSms == Sending /\ provider.class = "TwilioSmsProvider"

\* C28: every payload TwilioSmsProvider.send passes to the carrier holds
\* exactly one of messagingServiceSid and from: the messaging-service
\* identifier of the config, else of the environment, when there is one, and
\* then no from, even if the message carries a from_number; from only when
\* there is no messaging-service identifier.
C28_OneSenderField ==
  SendingSms
    => \A k \in 1..Len(result.calls) :
         LET payload == result.calls[k]
             sid == IF Truthy(provider.config.messaging_service_sid)
                    THEN provider.config.messaging_service_sid
                    ELSE env.TWILIO_MESSAGING_SERVICE_SID
         IN /\ Truthy(payload.messagingServiceSid) # Truthy(payload.from)
            /\ Truthy(sid) => /\ payload.messagingServiceSid = sid
                              /\ Falsy(payload.from)
            /\ Falsy(sid) => /\ Falsy(payload.messagingServiceSid)
                             /\ payload.from = Or(call.message.from_number,
                                                  provider.config.phone_number)

\* config and environment both name a messaging service and the message
\* carries a from_number: the payload uses the config's service and no from
C28_Witness ==
  /\ SendingSms
  /\ provider.config.messaging_service_sid = "MGconfig"
  /\ env.TWILIO_MESSAGING_SERVICE_SID = "MGenv"
  /\ call.message # NullObj
  /\ Truthy(call.message.from_number)
  /\ Len(result.calls) = 1
  /\ result.calls[1].messagingServiceSid = "MGconfig"
  /\ Falsy(result.calls[1].from)

VerifyingProvider == call.op = "verifyProvider"

\* C25: when the resolution of (tenant, channel) fails, verifyProvider fails
\* with the same resolution error, no adapter method is invoked and no
\* carrier is called; the failure is not turned into a {success: false} value.
C25_VerifyPropagates ==
  (/\ VerifyingProvider
   /\ getProvider(call.tenantId, call.channel).out.kind = "throw")
    => /\ result.out.kind = "throw"
       /\ result.out.error = getProvider(call.tenantId, call.channel).out.error
       /\ result.calls = <<>>

\* verifyProvider for a tenant without a credential row for the channel
C25_Witness ==
  /\ VerifyingProvider
  /\ tenants[call.tenantId] # NoTenant
  /\ ~tenants[call.tenantId].is_demo
  /\ credentials[<<call.tenantId, call.channel>>] = NoRow
  /\ result.out = Throw(ChannelNotConfigured)
  /\ result.calls = <<>>

\* C24: getProvider, getAllProviders, verifyProvider and every adapter's send,
\* verify, parseWebhook and getStatus leave the tenants table and the
\* credential table as they were: no row is inserted, updated or deleted.
C24_TablesUntouched ==
  [][tenants' = tenants /\ credentials' = credentials]_vars

\* a verification the carrier refused, made through verifyProvider for a
\* tenant whose credential row is still in the table
C24_Witness ==
  /\ VerifyingProvider
  /\ result.out.kind = "return"
  /\ ~result.out.value.success
  /\ credentials[<<call.tenantId, call.channel>>] # NoRow

\* C27 as stated: getProvider applies its checks in the order tenant exists,
\* tenant is demo, credential row exists, blob decrypts, carrier/channel
\* dispatch, and the error it reports is that of the first of them that fails.
C27_FirstFailingCheck_Original ==
  Resolving =>
    IF CalledTenant = NoTenant THEN result.out = Throw(TenantNotFound)
    ELSE IF CalledTenant.is_demo
    THEN result.out.kind = "return" /\ result.out.value.class = "DemoProvider"
    ELSE IF CalledRow = NoRow THEN result.out = Throw(ChannelNotConfigured)
    ELSE IF Undecryptable(CalledRow) THEN result.out = Throw(InvalidCredentials)
    ELSE <<CalledRow.provider, call.channel>> \in UnsupportedPairs
           => /\ result.out.kind = "throw"
              /\ result.out.error \in UnsupportedCarrierForChannel

\* C27 as amended: the order is tenant exists, tenant is demo, credential row
\* exists, blob decrypts, config text parses, carrier/channel dispatch; the
\* error reported is that of the first of these that fails.
C27_FirstFailingCheck ==
  Resolving =>
    IF CalledTenant = NoTenant THEN result.out = Throw(TenantNotFound)
    ELSE IF CalledTenant.is_demo
    THEN result.out.kind = "return" /\ result.out.value.class = "DemoProvider"
    ELSE IF CalledRow = NoRow THEN result.out = Throw(ChannelNotConfigured)
    ELSE IF Undecryptable(CalledRow) THEN result.out = Throw(InvalidCredentials)
    ELSE IF ~ConfigParses(CalledRow) THEN result.out = Throw(SyntaxError)
    ELSE <<CalledRow.provider, call.channel>> \in UnsupportedPairs
           => /\ result.out.kind = "throw"
              /\ result.out.error \in UnsupportedCarrierForChannel

\* a row that is both undecryptable and names an unsupported pair
C27_Witness ==
  /\ ResolvingConfigured
  /\ Undecryptable(CalledRow)
  /\ <<CalledRow.provider, call.channel>> \in UnsupportedPairs
  /\ result.out = Throw(InvalidCredentials)

\* A step of the clockless handler: the call recorded is a submission and the
\* clock did not move.
SubmitStep == call'.op = "submit10dlc" /\ now' = now

====
